---- MODULE Spec2Model ----
(***************************************************************************)
(* Model of package wamp, file dict.go: NormalizeDict, DictChild,          *)
(* DictValue, DictFlag, OptionString, OptionInt64, OptionFlag, SetOption.  *)
(*                                                                         *)
(* Go maps are reference objects, so the model keeps an object store       *)
(* (heap): a sequence of map objects, the address of a map being its index.*)
(* make()/map literals append a new object.  A nil map is no object: the   *)
(* nil map[string]interface{} is address Null, and the nil map of each     *)
(* other map type is an address below it.                                  *)
(* An interface{} value is a tagged record; a map value holds an address.  *)
(***************************************************************************)
EXTENDS Integers, Sequences, FiniteSets, TLC

VARIABLES
    heap,   \* the object store now
    heap0,  \* the object store the caller built before any call (never changes)
    root,   \* the interface{} value the caller passes to the functions
    ret,    \* the last completed call: its name, arguments and results
    rd      \* the concurrent readers: each one's position in DictFlag/DictValue

vars == <<heap, heap0, root, ret, rd>>

----------------------------------------------------------------------------
(* Values of type interface{}                                              *)

Null == 0                                   \* a nil map[string]interface{}
Nil == [t |-> "nil"]                        \* the nil interface value
BoolV(b) == [t |-> "bool", v |-> b]
StrV(s) == [t |-> "string", v |-> s]
IntV(ty, n) == [t |-> ty, v |-> n]          \* ty: int, int8, ..., uint64
FloatV(ty, n, d) == [t |-> ty, num |-> n, den |-> d]   \* the number n/d
MapV(a) == [t |-> "map", a |-> a]           \* a map of any Go map type, by address
SliceV(a) == [t |-> "slice", a |-> a]       \* []interface{}{m}: a non-map holding map a

(* Map keys.  ty is the key's dynamic Go type: string, the named string    *)
(* type MyStr (type MyStr string), or int.                                 *)
Key(ty, s) == [ty |-> ty, s |-> s]
SKey(s) == Key("string", s)

(* The Go map types of the model.                                          *)
(*   canon  map[string]interface{}          the canonical Dict             *)
(*   dict   type Dict map[string]interface{}  a named map type             *)
(*   mystr  map[MyStr]interface{}                                          *)
(*   iface  map[interface{}]interface{}                                    *)
MapTypes == {"canon", "dict", "mystr", "iface"}

(* The nil map of map type mt, and the map type of a nil map.  A nil map   *)
(* held in an interface{} keeps its type: the interface is not nil.        *)
NilOf(mt) ==
    CASE mt = "canon" -> Null
      [] mt = "dict"  -> Null - 1
      [] mt = "mystr" -> Null - 2
      [] mt = "iface" -> Null - 3
IsNilMap(a) == a <= Null
TypeOfNil(a) == CHOOSE mt \in MapTypes : NilOf(mt) = a

EmptyEnt == [k \in {} |-> Nil]
NewMap == [mt |-> "canon", ent |-> EmptyEnt]     \* map[string]interface{}{}

(* m[k] = v on the entries of a map.                                       *)
Put(ent, k, v) == [x \in (DOMAIN ent) \cup {k} |-> IF x = k THEN v ELSE ent[x]]

----------------------------------------------------------------------------
(* reflect                                                                 *)

(* reflect.Kind of a key type.                                             *)
KindOfType(ty) ==
    CASE ty = "string" -> "String"
      [] ty = "MyStr"  -> "String"
      [] ty = "int"    -> "Int"
      [] OTHER         -> "Invalid"

(* Go leaves the order in which a map's keys are ranged over unspecified,  *)
(* and picks it anew each time a map is ranged over.  A call is given an   *)
(* order oracle ord with one sequence of keys per call of val.MapKeys().   *)
(* Every activation of NormalizeDict on a map allocates one dict and calls *)
(* val.MapKeys() once, so the oracle is indexed by the address of the dict *)
(* the activation allocates.  The map's keys come in the sequence given,   *)
(* and any key of the map the sequence does not list comes after them.     *)
RECURSIVE SetToSeq(_)
SetToSeq(S) ==
    IF S = {} THEN <<>>
    ELSE LET x == CHOOSE y \in S : TRUE IN <<x>> \o SetToSeq(S \ {x})

RECURSIVE Filter(_, _)
Filter(s, dom) ==
    IF s = <<>> THEN <<>>
    ELSE IF Head(s) \in dom THEN <<Head(s)>> \o Filter(Tail(s), dom)
         ELSE Filter(Tail(s), dom)

NoOrder == <<>>                             \* the oracle that lists nothing
(* The sequence for the val.MapKeys() call of the activation that          *)
(* allocates the dict at address dst.                                      *)
OrderAt(ord, dst) == IF dst \in DOMAIN ord THEN ord[dst] ELSE <<>>

(* val.MapKeys(): reflect.Values of all keys of map m, in the given order; *)
(* a key of an interface-keyed map has Kind Interface and its dynamic      *)
(* value as Elem.                                                          *)
MapKeys(m, order) ==
    LET listed == Filter(order, DOMAIN m.ent)
        ks == listed \o SetToSeq(DOMAIN m.ent \ {listed[i] : i \in 1..Len(listed)})
    IN [i \in 1..Len(ks) |->
          [kind |-> IF m.mt = "iface" THEN "Interface" ELSE KindOfType(ks[i].ty),
           dyn |-> ks[i]]]

(* Every order of the keys in S.                                           *)
Perms(S) ==
    {p \in [1..Cardinality(S) -> S] : \A i, j \in DOMAIN p : i # j => p[i] # p[j]}

(* The map at address a; a nil map reads as a map of its type without     *)
(* entries.                                                                *)
Obj(h, a) == IF IsNilMap(a) THEN [mt |-> TypeOfNil(a), ent |-> EmptyEnt] ELSE h[a]

(* key.Elem() of a key of Kind Interface.                                  *)
Elem(key) == [kind |-> KindOfType(key.dyn.ty), dyn |-> key.dyn]

----------------------------------------------------------------------------
(* NormalizeDict, dict.go:15-37.  Returns the new store and the address of *)
(* the new dict (Null when v is not a map).                                *)

RECURSIVE NormalizeDict(_, _, _)
RECURSIVE NormalizeKeys(_, _, _, _, _)

(* Mutant: a nested map that is not canonical is converted one level deep  *)
(* only (its own values are stored as they are).                           *)
ShallowDict(h, v) ==
    LET src == Obj(h, v.a).ent
        names == {k.s : k \in {x \in DOMAIN src : KindOfType(x.ty) = "String"}}
        pick(n) == CHOOSE k \in DOMAIN src : KindOfType(k.ty) = "String" /\ k.s = n
    IN [h |-> Append(h, [mt |-> "canon",
                         ent |-> [sk \in {SKey(n) : n \in names} |-> src[pick(sk.s)]]]),
        r |-> Len(h) + 1]

NormalizeKeys_Shallow(h, src, dst, keys, ord) ==
    IF keys = <<>> THEN h
    ELSE LET k0 == Head(keys)
             key == IF k0.kind = "Interface" THEN Elem(k0) ELSE k0
         IN IF key.kind # "String"
            THEN NormalizeKeys(h, src, dst, Tail(keys), ord)
            ELSE LET cv == h[src].ent[key.dyn]
                     nv == IF cv.t = "map" /\ Obj(h, cv.a).mt # "canon"
                           THEN ShallowDict(h, cv)
                           ELSE NormalizeDict(h, cv, ord)
                     st == IF nv.r = Null THEN cv ELSE MapV(nv.r)
                     h2 == [nv.h EXCEPT ![dst].ent = Put(@, SKey(key.dyn.s), st)]
                 IN NormalizeKeys(h2, src, dst, Tail(keys), ord)

(* Mutant: a nested value that already is a map[string]interface{} is      *)
(* stored as it is, not copied.                                            *)
NormalizeKeys_Share(h, src, dst, keys, ord) ==
    IF keys = <<>> THEN h
    ELSE LET k0 == Head(keys)
             key == IF k0.kind = "Interface" THEN Elem(k0) ELSE k0
         IN IF key.kind # "String"
            THEN NormalizeKeys(h, src, dst, Tail(keys), ord)
            ELSE LET cv == h[src].ent[key.dyn]
                     nv == IF cv.t = "map" /\ Obj(h, cv.a).mt = "canon"
                           THEN [h |-> h, r |-> Null]
                           ELSE NormalizeDict(h, cv, ord)
                     st == IF nv.r = Null THEN cv ELSE MapV(nv.r)
                     h2 == [nv.h EXCEPT ![dst].ent = Put(@, SKey(key.dyn.s), st)]
                 IN NormalizeKeys(h2, src, dst, Tail(keys), ord)

(* One iteration of the loop over val.MapKeys(), dict.go:21-35, then the   *)
(* rest of the loop.  src is the map ranged over, dst the new dict.        *)
NormalizeKeys(h, src, dst, keys, ord) ==
    IF keys = <<>> THEN h
    ELSE LET k0 == Head(keys)
             key == IF k0.kind = "Interface" THEN Elem(k0) ELSE k0
         IN IF key.kind # "String"
            THEN NormalizeKeys(h, src, dst, Tail(keys), ord)
            ELSE LET cv == h[src].ent[key.dyn]
                     nv == NormalizeDict(h, cv, ord)
                     st == IF nv.r = Null THEN cv ELSE MapV(nv.r)
                     h2 == [nv.h EXCEPT ![dst].ent = Put(@, SKey(key.dyn.s), st)]
                 IN NormalizeKeys(h2, src, dst, Tail(keys), ord)

(* Mutant: a map without entries is reported as "not a map".                *)
NormalizeDict_NilOnEmpty(h, v, ord) ==
    IF v.t # "map" \/ DOMAIN Obj(h, v.a).ent = {} THEN [h |-> h, r |-> Null]
    ELSE LET dst == Len(h) + 1
             h1 == Append(h, NewMap)
         IN [h |-> NormalizeKeys(h1, v.a, dst, MapKeys(Obj(h, v.a), OrderAt(ord, dst)), ord),
             r |-> dst]

NormalizeDict(h, v, ord) ==
    IF v.t # "map" THEN [h |-> h, r |-> Null]
    ELSE LET dst == Len(h) + 1
             h1 == Append(h, NewMap)
         IN [h |-> NormalizeKeys(h1, v.a, dst, MapKeys(Obj(h, v.a), OrderAt(ord, dst)), ord),
             r |-> dst]

----------------------------------------------------------------------------
(* Structural view of a value: maps replaced by their type, whether they   *)
(* are nil, and their contents.                                            *)

RECURSIVE Tree(_, _)
Tree(h, v) ==
    IF v.t \in {"map", "slice"}
    THEN [t |-> v.t, mt |-> Obj(h, v.a).mt, isnil |-> IsNilMap(v.a),
          ent |-> [k \in DOMAIN Obj(h, v.a).ent |-> Tree(h, h[v.a].ent[k])]]
    ELSE v

----------------------------------------------------------------------------
(* Reading a map.  A nil map reads as an empty one.                        *)

Ent(h, a) == Obj(h, a).ent
MapType(h, a) == Obj(h, a).mt
Has(h, a, name) == SKey(name) \in DOMAIN Ent(h, a)        \* _, ok := m[name]
Get(h, a, name) == Ent(h, a)[SKey(name)]                  \* m[name], when ok

(* Mutant: the converted child is stored back into the dict.               *)
DictChild_Cache(h, dict, key, ord) ==
    IF ~Has(h, dict, key) \/ Get(h, dict, key).t = "nil"
    THEN [h |-> h, r |-> Null]
    ELSE LET iface == Get(h, dict, key)
         IN IF iface.t = "map" /\ MapType(h, iface.a) = "canon"
            THEN [h |-> h, r |-> iface.a]
            ELSE LET n == NormalizeDict(h, iface, ord)
                 IN IF n.r = Null THEN n
                    ELSE [h |-> [n.h EXCEPT ![dict].ent = Put(@, SKey(key), MapV(n.r))],
                          r |-> n.r]

(* Mutant: a child that already is canonical is converted (copied) too.    *)
DictChild_Copy(h, dict, key, ord) ==
    IF ~Has(h, dict, key) \/ Get(h, dict, key).t = "nil"
    THEN [h |-> h, r |-> Null]
    ELSE NormalizeDict(h, Get(h, dict, key), ord)

(* DictChild, dict.go:44-62.  Returns the store (the fallback allocates)   *)
(* and the address of the child, Null for nil.                             *)
DictChild(h, dict, key, ord) ==
    IF ~Has(h, dict, key) \/ Get(h, dict, key).t = "nil"
    THEN [h |-> h, r |-> Null]
    ELSE LET iface == Get(h, dict, key)
         IN IF iface.t = "map" /\ MapType(h, iface.a) = "canon"
            THEN [h |-> h, r |-> iface.a]
            ELSE NormalizeDict(h, iface, ord)

(* strings.Join(elems, sep)                                                *)
RECURSIVE Join(_, _)
Join(elems, sep) ==
    IF elems = <<>> THEN ""
    ELSE IF Len(elems) = 1 THEN elems[1]
    ELSE elems[1] \o sep \o Join(Tail(elems), sep)

NoError == "<nil>"                          \* the nil error
Panic == "panic: slice bounds out of range" \* path[:len(path)-1] of an empty path

RECURSIVE DictValueFrom(_, _, _, _, _)

(* Mutant: the error of a failed segment names path[:i], not path[:i+1].   *)
DictValueFrom_ShortPrefix(h, dict, path, i, ord) ==
    IF i < Len(path) - 1
    THEN LET c == DictChild(h, dict, path[i + 1], ord)
         IN IF c.r = Null
            THEN [h |-> c.h, v |-> Nil,
                  err |-> "cannot find: " \o Join(SubSeq(path, 1, i), ".")]
            ELSE DictValueFrom(c.h, c.r, path, i + 1, ord)
    ELSE IF ~Has(h, dict, path[Len(path)])
         THEN [h |-> h, v |-> Nil, err |-> "cannot find: " \o Join(path, ".")]
         ELSE [h |-> h, v |-> Get(h, dict, path[Len(path)]), err |-> NoError]

(* Mutant: a final key that holds nil counts as absent.                    *)
DictValueFrom_NilLeaf(h, dict, path, i, ord) ==
    IF i < Len(path) - 1
    THEN LET c == DictChild(h, dict, path[i + 1], ord)
         IN IF c.r = Null
            THEN [h |-> c.h, v |-> Nil,
                  err |-> "cannot find: " \o Join(SubSeq(path, 1, i + 1), ".")]
            ELSE DictValueFrom(c.h, c.r, path, i + 1, ord)
    ELSE IF ~Has(h, dict, path[Len(path)]) \/ Get(h, dict, path[Len(path)]).t = "nil"
         THEN [h |-> h, v |-> Nil, err |-> "cannot find: " \o Join(path, ".")]
         ELSE [h |-> h, v |-> Get(h, dict, path[Len(path)]), err |-> NoError]

(* DictValue, dict.go:72-85.  i is the loop index (0-based, as in the      *)
(* code); DictValueFrom is the loop from index i on, then lines 80-84.     *)
DictValueFrom(h, dict, path, i, ord) ==
    IF i < Len(path) - 1
    THEN LET c == DictChild(h, dict, path[i + 1], ord)
         IN IF c.r = Null
            THEN [h |-> c.h, v |-> Nil,
                  err |-> "cannot find: " \o Join(SubSeq(path, 1, i + 1), ".")]
            ELSE DictValueFrom(c.h, c.r, path, i + 1, ord)
    ELSE IF ~Has(h, dict, path[Len(path)])
         THEN [h |-> h, v |-> Nil, err |-> "cannot find: " \o Join(path, ".")]
         ELSE [h |-> h, v |-> Get(h, dict, path[Len(path)]), err |-> NoError]

DictValue(h, dict, path, ord) ==
    IF Len(path) = 0 THEN [h |-> h, v |-> Nil, err |-> Panic]
    ELSE DictValueFrom(h, dict, path, 0, ord)

(* Mutant: a nil value reads as false, without an error.                   *)
DictFlag_NilFalse(h, dict, path, ord) ==
    LET r == DictValue(h, dict, path, ord)
    IN IF r.err # NoError THEN [h |-> r.h, b |-> FALSE, err |-> r.err]
       ELSE IF r.v.t = "nil" THEN [h |-> r.h, b |-> FALSE, err |-> NoError]
       ELSE IF r.v.t # "bool"
            THEN [h |-> r.h, b |-> FALSE,
                  err |-> Join(path, ".") \o " is not a boolean type"]
            ELSE [h |-> r.h, b |-> r.v.v, err |-> NoError]

(* DictFlag, dict.go:95-106.                                               *)
DictFlag(h, dict, path, ord) ==
    LET r == DictValue(h, dict, path, ord)
    IN IF r.err # NoError THEN [h |-> r.h, b |-> FALSE, err |-> r.err]
       ELSE IF r.v.t # "bool"
            THEN [h |-> r.h, b |-> FALSE,
                  err |-> Join(path, ".") \o " is not a boolean type"]
            ELSE [h |-> r.h, b |-> r.v.v, err |-> NoError]

(* OptionString, dict.go:110-116.                                          *)
OptionString(h, opts, optionName) ==
    IF Has(h, opts, optionName) /\ Get(h, opts, optionName).t = "string"
    THEN Get(h, opts, optionName).v
    ELSE ""

(* int64(f) of a float64 f = num/den: the fraction is discarded.           *)
Trunc(num, den) ==
    IF num >= 0 THEN num \div den ELSE -((-num) \div den)

(* OptionInt64, dict.go:120-138: the type switch has the cases int, int32, *)
(* float64, uint, uint32 and uint64.                                       *)
OptionInt64(h, opts, optionName) ==
    IF Has(h, opts, optionName) /\ Get(h, opts, optionName).t # "nil"
    THEN LET opt == Get(h, opts, optionName)
         IN CASE opt.t = "int"     -> opt.v
              [] opt.t = "int32"   -> opt.v
              [] opt.t = "float64" -> Trunc(opt.num, opt.den)
              [] opt.t = "uint"    -> opt.v
              [] opt.t = "uint32"  -> opt.v
              [] opt.t = "uint64"  -> opt.v
              [] OTHER             -> 0
    ELSE 0

(* OptionFlag, dict.go:142-148.                                            *)
OptionFlag(h, opts, optionName) ==
    IF Has(h, opts, optionName) /\ Get(h, opts, optionName).t = "bool"
    THEN Get(h, opts, optionName).v
    ELSE FALSE

(* Mutant: the option is set in a copy of the dict.                        *)
SetOption_Copy(h, dict, name, value) ==
    LET d == Len(h) + 1
        h1 == Append(h, [mt |-> "canon", ent |-> Ent(h, dict)])
    IN [h |-> [h1 EXCEPT ![d].ent = Put(@, SKey(name), value)], r |-> d]

(* SetOption, dict.go:151-157.  Returns the store and the dict's address.  *)
SetOption(h, dict, name, value) ==
    LET d == IF dict = Null THEN Len(h) + 1 ELSE dict
        h1 == IF dict = Null THEN Append(h, NewMap) ELSE h
    IN [h |-> [h1 EXCEPT ![d].ent = Put(@, SKey(name), value)], r |-> d]

----------------------------------------------------------------------------
(* The calls.  Every action is one call of an exported function by the     *)
(* caller; ret records the call, pre being the store when it was made.     *)

NoCall == [op |-> "none", log |-> <<>>]

(* The option values a caller may pass: every Go integer type, both float  *)
(* types, and the non-numeric kinds.                                       *)
SignedTypes == {"int", "int8", "int16", "int32", "int64"}
UnsignedTypes == {"uint", "uint8", "uint16", "uint32", "uint64"}
FloatTypes == {"float32", "float64"}
OptionValues ==
    {IntV(ty, n) : ty \in SignedTypes, n \in {-3, 5}}
      \cup {IntV(ty, 5) : ty \in UnsignedTypes}
      \cup {FloatV(ty, n, 10) : ty \in FloatTypes, n \in {-59, 59}}
      \cup {Nil, BoolV(TRUE), BoolV(FALSE), StrV("true"), StrV("")}
OptionNames == {"timeout", "x"}

(* All maps with keys among ks and values among vs.                        *)
Entries(ks, vs) == UNION {[d -> vs] : d \in SUBSET ks}

InitOpt ==
    /\ \E e \in Entries({SKey(n) : n \in OptionNames}, OptionValues) :
          heap = <<[mt |-> "canon", ent |-> e]>>
    /\ heap0 = heap
    /\ root \in {MapV(1), MapV(Null)}
    /\ ret = NoCall
    /\ rd = <<>>

CallOptionInt64(name) ==
    /\ ret' = [op |-> "OptionInt64", dict |-> root.a, name |-> name, pre |-> heap,
               out |-> OptionInt64(heap, root.a, name)]
    /\ UNCHANGED <<heap, heap0, root, rd>>

CallOptionString(name) ==
    /\ ret' = [op |-> "OptionString", dict |-> root.a, name |-> name, pre |-> heap,
               out |-> OptionString(heap, root.a, name)]
    /\ UNCHANGED <<heap, heap0, root, rd>>

CallOptionFlag(name) ==
    /\ ret' = [op |-> "OptionFlag", dict |-> root.a, name |-> name, pre |-> heap,
               out |-> OptionFlag(heap, root.a, name)]
    /\ UNCHANGED <<heap, heap0, root, rd>>

NextOpt ==
    \E name \in OptionNames :
        \/ CallOptionInt64(name)
        \/ CallOptionString(name)
        \/ CallOptionFlag(name)

SpecOpt == InitOpt /\ [][NextOpt]_vars

----------------------------------------------------------------------------
(* C1: IntOption returns 0 when the name is absent or its value is nil;    *)
(* for a value of any integer type (8, 16, 32, 64 bit, int, uint) it       *)
(* returns that value, for a floating-point value the value truncated      *)
(* toward zero, and 0 for any other type.                                  *)
C1_AnyWidthCoerced ==
    ret.op = "OptionInt64" =>
        IF ~Has(ret.pre, ret.dict, ret.name) THEN ret.out = 0
        ELSE LET opt == Get(ret.pre, ret.dict, ret.name)
             IN CASE opt.t \in SignedTypes \cup UnsignedTypes -> ret.out = opt.v
                  [] opt.t \in FloatTypes ->
                        /\ ret.out * opt.den - opt.num \in (1 - opt.den)..(opt.den - 1)
                        /\ (opt.num >= 0 => ret.out * opt.den <= opt.num)
                        /\ (opt.num <= 0 => ret.out * opt.den >= opt.num)
                  [] OTHER -> ret.out = 0

----------------------------------------------------------------------------
(* Building an options dict: SetOption calls threaded through the returned *)
(* dict, starting from a nil dict or from an existing one.                 *)

MaxSets == 3                                \* SetOption calls in one run
SetNames == {"k", "x"}
SetValues == {IntV("int", 1), IntV("int", 2), Nil}

InitSet ==
    /\ \E e \in Entries({SKey(n) : n \in {"k", "y"}}, {IntV("int", 1), StrV("s")}) :
          heap = <<[mt |-> "canon", ent |-> e]>>
    /\ heap0 = heap
    /\ root \in {MapV(1), MapV(Null)}
    /\ ret = NoCall
    /\ rd = <<>>

CallSetOption(name, value) ==
    /\ Len(ret.log) < MaxSets
    /\ LET r == SetOption(heap, root.a, name, value)
       IN /\ heap' = r.h
          /\ root' = MapV(r.r)
          /\ ret' = [op |-> "SetOption", dict |-> root.a, name |-> name,
                     value |-> value, pre |-> heap, out |-> r.r,
                     log |-> Append(ret.log, [name |-> name, value |-> value])]
    /\ UNCHANGED <<heap0, rd>>

NextSet == \E name \in SetNames, value \in SetValues : CallSetOption(name, value)

SpecSet == InitSet /\ [][NextSet]_vars

(* The dict the first SetOption call of the run was given.                 *)
FirstDict == IF root.a = Len(heap0) + 1 THEN Null ELSE root.a

(* The index of the last call of the log that set name (0: none did).      *)
LastSet(log, name) ==
    IF \E i \in 1..Len(log) : log[i].name = name
    THEN CHOOSE i \in 1..Len(log) :
            /\ log[i].name = name
            /\ \A j \in (i + 1)..Len(log) : log[j].name # name
    ELSE 0

(* C9: SetOption on a nil dict returns a newly allocated Dict holding      *)
(* exactly {name: value}; on a non-nil dict it returns the same object, in *)
(* which name maps to value and every other key keeps its value; no other  *)
(* object changes.  After a sequence of calls threaded through the         *)
(* returned dict, each name maps to the value of the last call that set    *)
(* it, and a name no call set is as it was at the start.                   *)
C9_SetOptionUpsert ==
    ret.op = "SetOption" =>
        /\ ret.out # Null
        /\ SubSeq(heap, 1, Len(ret.pre)) =
              IF ret.dict = Null THEN ret.pre
              ELSE [ret.pre EXCEPT ![ret.dict].ent = Put(@, SKey(ret.name), ret.value)]
        /\ IF ret.dict = Null
           THEN /\ ret.out = Len(ret.pre) + 1
                /\ Len(heap) = Len(ret.pre) + 1
                /\ heap[ret.out] =
                      [mt |-> "canon", ent |-> Put(EmptyEnt, SKey(ret.name), ret.value)]
           ELSE /\ ret.out = ret.dict
                /\ Len(heap) = Len(ret.pre)
        /\ \A n \in SetNames \cup {"y"} :
              LET i == LastSet(ret.log, n)
              IN IF i > 0
                 THEN Has(heap, ret.out, n) /\ Get(heap, ret.out, n) = ret.log[i].value
                 ELSE /\ Has(heap, ret.out, n) <=> Has(heap0, FirstDict, n)
                      /\ Has(heap, ret.out, n) =>
                            Get(heap, ret.out, n) = Get(heap0, FirstDict, n)

(* Both starts have happened: a name set twice with different values, on a *)
(* dict that was allocated by the first call or existed with other keys.   *)
C9_Witness ==
    /\ ret.op = "SetOption"
    /\ Len(ret.log) = 3
    /\ ret.log[1].name = ret.log[3].name
    /\ ret.log[1].value # ret.log[3].value
    /\ ret.log[2].name # ret.log[1].name
    /\ FirstDict = Null

----------------------------------------------------------------------------
(* The nested values a decoder hands over: a root map (address 1) that may *)
(* hold a child map (address 2) that may hold, directly or inside a slice, *)
(* a grandchild map (address 3).  Each map is of any of the map types,     *)
(* with the keys its key type allows.  The root may also hold a nil map,   *)
(* of the canonical type or of another one.                                *)

KeysAt(level, mt) ==
    CASE mt \in {"canon", "dict"} ->
            IF level = 3 THEN {SKey("a")} ELSE {SKey("a"), SKey("b")}
      [] mt = "mystr" -> {Key("MyStr", "a")}
      [] mt = "iface" ->
            IF level = 1 THEN {SKey("a"), Key("MyStr", "a")}
            ELSE {SKey("a"), Key("MyStr", "a"), Key("int", "1")}

ValuesAt(level) ==
    CASE level = 1 -> {BoolV(TRUE), Nil, MapV(2), MapV(Null), MapV(NilOf("iface"))}
      [] level = 2 -> {Nil, MapV(3), SliceV(3)}
      [] level = 3 -> {BoolV(FALSE), StrV("yes")}

ObjectsAt(level, mts) ==
    UNION {{[mt |-> mt, ent |-> e] : e \in Entries(KeysAt(level, mt), ValuesAt(level))}
             : mt \in mts}

Heaps(rootTypes, leafTypes) ==
    {<<o1, o2, o3>> : o1 \in ObjectsAt(1, rootTypes), o2 \in ObjectsAt(2, {"canon", "mystr", "iface"}),
                      o3 \in ObjectsAt(3, leafTypes)}

(* The maps reachable from v through map-typed values (not through slices).*)
RECURSIVE Reach(_, _)
Reach(h, v) ==
    IF v.t # "map" \/ IsNilMap(v.a) THEN {}
    ELSE {v.a} \cup UNION {Reach(h, h[v.a].ent[k]) : k \in DOMAIN h[v.a].ent}

(* The key orders one call NormalizeDict(v) on store h can draw: one      *)
(* order per val.MapKeys() call, in the sequence of the calls.  The call   *)
(* on v draws an order p of the keys of v, then each nested call draws its *)
(* own, in the sequence in which p reaches the keys of Kind String.        *)
RECURSIVE KeyOrders(_, _)
RECURSIVE KeyOrdersBelow(_, _, _, _)
KeyOrders(h, v) ==
    IF v.t # "map" THEN {<<>>}
    ELSE UNION {{<<p>> \o s : s \in KeyOrdersBelow(h, v.a, p, 1)}
                  : p \in Perms(DOMAIN Obj(h, v.a).ent)}
KeyOrdersBelow(h, a, p, i) ==
    IF i > Len(p) THEN {<<>>}
    ELSE IF KindOfType(p[i].ty) # "String" THEN KeyOrdersBelow(h, a, p, i + 1)
    ELSE {s \o t : s \in KeyOrders(h, h[a].ent[p[i]]),
                   t \in KeyOrdersBelow(h, a, p, i + 1)}

(* The oracle of a call made on store h whose val.MapKeys() calls draw the *)
(* orders s: the k-th of them belongs to the k-th dict allocated.          *)
OracleOf(h, s) ==
    [d \in 1..(Len(h) + Len(s)) |-> IF d <= Len(h) THEN <<>> ELSE s[d - Len(h)]]

(* The order oracles of a call NormalizeDict(v) on store h.                *)
Orders(h, v) == {OracleOf(h, s) : s \in KeyOrders(h, v)}

InitNorm ==
    /\ heap \in Heaps(MapTypes, {"canon", "dict"})
    /\ heap0 = heap
    /\ root \in {MapV(1), MapV(Null), MapV(NilOf("mystr")), IntV("int", 42),
                 StrV("abc"), Nil}
    /\ (root # MapV(1) => heap = <<NewMap, NewMap, NewMap>>)
    /\ ret = NoCall
    /\ rd = <<>>

(* y := NormalizeDict(x)                                                   *)
CallNormalizeDict ==
    /\ ret.op = "none"
    /\ \E ord \in Orders(heap, root) :
          LET n == NormalizeDict(heap, root, ord)
          IN /\ heap' = n.h
             /\ ret' = [op |-> "NormalizeDict", arg |-> root, pre |-> heap, out |-> n.r]
    /\ UNCHANGED <<heap0, root, rd>>

(* z := NormalizeDict(y), y the result of the call before                  *)
CallNormalizeAgain ==
    /\ ret.op = "NormalizeDict"
    /\ ret.out # Null
    /\ \E ord \in Orders(heap, MapV(ret.out)) :
          LET n == NormalizeDict(heap, MapV(ret.out), ord)
          IN /\ heap' = n.h
             /\ ret' = [op |-> "NormalizeAgain", arg |-> MapV(ret.out), pre |-> heap,
                        out |-> n.r]
    /\ UNCHANGED <<heap0, root, rd>>

(* The caller writes into the result of NormalizeDict or into a dict       *)
(* nested in it.                                                           *)
WriteResult(a) ==
    /\ ret.op = "NormalizeDict"
    /\ a \in Reach(heap, MapV(ret.out))
    /\ LET r == SetOption(heap, a, "w", BoolV(FALSE))
       IN /\ heap' = r.h
          /\ ret' = [op |-> "WriteResult", arg |-> MapV(a), pre |-> heap, out |-> r.r,
                     norm |-> ret.out]
    /\ UNCHANGED <<heap0, root, rd>>

NextNorm ==
    \/ CallNormalizeDict
    \/ CallNormalizeAgain
    \/ \E a \in 1..Len(heap) : WriteResult(a)

SpecNorm == InitNorm /\ [][NextNorm]_vars

StringTypes == {"string", "MyStr"}          \* the key types of Kind String

(* C4: Normalize is idempotent: Normalize(Normalize(x)) is structurally    *)
(* equal to Normalize(x) for every map-shaped x, whatever its map types,   *)
(* non-string keys and nil values.                                         *)
C4_NormalizeIdempotent ==
    ret.op = "NormalizeAgain" =>
        /\ ret.out # Null
        /\ Tree(heap, MapV(ret.out)) = Tree(heap, ret.arg)

(* x is a map of a named type with a nil value that holds an              *)
(* interface-keyed child with an int key, which holds a grandchild of a    *)
(* named type; it was normalized twice.                                    *)
C4_Witness ==
    /\ ret.op = "NormalizeAgain"
    /\ root = MapV(1)
    /\ heap0[1].mt = "dict"
    /\ heap0[1].ent = (SKey("a") :> MapV(2)) @@ (SKey("b") :> Nil)
    /\ heap0[2].mt = "iface"
    /\ heap0[2].ent = (SKey("a") :> MapV(3)) @@ (Key("int", "1") :> Nil)
    /\ heap0[3].mt = "dict"
    /\ heap0[3].ent # EmptyEnt

(* C5: Normalize never mutates its input: the input map and every map      *)
(* nested in it are as they were, the result and every dict nested in it   *)
(* are objects allocated by the call, and a later write into the result or *)
(* into a dict nested in it leaves the input as it was.                    *)
C5_NormalizeFresh ==
    /\ SubSeq(heap, 1, Len(heap0)) = heap0
    /\ Tree(heap, root) = Tree(heap0, root)
    /\ ret.op = "NormalizeDict" =>
          Reach(heap, MapV(ret.out)) \subseteq (Len(ret.pre) + 1)..Len(heap)

(* The input held a canonical child holding a canonical grandchild, and    *)
(* the caller wrote into the grandchild's counterpart in the result.       *)
C5_Witness ==
    /\ ret.op = "WriteResult"
    /\ ret.arg.a # ret.norm
    /\ heap0[1].mt = "canon" /\ heap0[2].mt = "canon" /\ heap0[3].mt = "canon"
    /\ SKey("a") \in DOMAIN heap0[1].ent /\ heap0[1].ent[SKey("a")] = MapV(2)
    /\ SKey("a") \in DOMAIN heap0[2].ent /\ heap0[2].ent[SKey("a")] = MapV(3)
    /\ \E k \in {x \in DOMAIN heap[ret.norm].ent : heap[ret.norm].ent[x].t = "map"} :
          \E j \in DOMAIN heap[heap[ret.norm].ent[k].a].ent :
             heap[heap[ret.norm].ent[k].a].ent[j] = ret.arg

(* Dict a is a normal form of map value v: a canonical map whose keys are  *)
(* the texts of the keys of v of Kind String, each holding, for a key of v *)
(* with that text, a normal form of its value when that value is a map,    *)
(* and the value itself otherwise.                                         *)
RECURSIVE NormalFormOf(_, _, _)
NormalFormOf(h, v, a) ==
    LET src == Ent(h, v.a)
        dst == h[a].ent
    IN /\ h[a].mt = "canon"
       /\ DOMAIN dst = {SKey(k.s) : k \in {x \in DOMAIN src : x.ty \in StringTypes}}
       /\ \A sk \in DOMAIN dst :
             \E k \in DOMAIN src :
                /\ k.ty \in StringTypes
                /\ k.s = sk.s
                /\ IF src[k].t = "map"
                   THEN dst[sk].t = "map" /\ dst[sk].a # Null
                        /\ NormalFormOf(h, src[k], dst[sk].a)
                   ELSE dst[sk] = src[k]

(* Dict a holds every key of map value v of Kind String with its own       *)
(* value: the normalized nested dict when the value is a map, the value    *)
(* itself otherwise; and so at every level below.                          *)
RECURSIVE EachKeyItsValue(_, _, _)
EachKeyItsValue(h, v, a) ==
    LET src == Ent(h, v.a)
        dst == h[a].ent
    IN /\ h[a].mt = "canon"
       /\ DOMAIN dst = {SKey(k.s) : k \in {x \in DOMAIN src : x.ty \in StringTypes}}
       /\ \A k \in {x \in DOMAIN src : x.ty \in StringTypes} :
             IF src[k].t = "map"
             THEN dst[SKey(k.s)].t = "map" /\ dst[SKey(k.s)].a # Null
                  /\ EachKeyItsValue(h, src[k], dst[SKey(k.s)].a)
             ELSE dst[SKey(k.s)] = src[k]

(* C6, as stated: at every nesting level the keys of Normalize(x) are      *)
(* exactly the string keys of the input map (non-string keys are dropped), *)
(* and each surviving key maps to the normalized nested Dict if its value  *)
(* is map-shaped and to the original value otherwise.  Normalize returns   *)
(* null only when the input is not a map; an empty map gives an empty      *)
(* Dict.  It fails for an interface-keyed map that holds a string key and  *)
(* a key of a named string type with the same text: both survive, the      *)
(* result has one key for the two, and it holds the value of one of them.  *)
C6_EachSurvivingKey ==
    ret.op = "NormalizeDict" =>
        /\ (ret.out = Null <=> ret.arg.t # "map")
        /\ (ret.out # Null => EachKeyItsValue(heap, ret.arg, ret.out))

(* C6, amended: at every nesting level the keys of Normalize(x) are        *)
(* exactly the texts of the string keys of the input map (non-string keys  *)
(* are dropped); a key of the result holds, for an input key with that     *)
(* text, the normalized nested Dict if that key's value is map-shaped and  *)
(* the original value otherwise.  So a string key whose text no other key  *)
(* of its map has maps to its own value; keys of one map with the same     *)
(* text give one key, which holds the value of one of them.  Normalize     *)
(* returns null only when the input is not a map; an empty map, and a nil  *)
(* map, gives an empty Dict.                                               *)
C6_NormalizeKeys ==
    ret.op = "NormalizeDict" =>
        /\ (ret.out = Null <=> ret.arg.t # "map")
        /\ (ret.out # Null => NormalFormOf(heap, ret.arg, ret.out))

(* A root of a named type held one interface-keyed child under two keys;  *)
(* the child held nil under the string key "a", an empty grandchild under  *)
(* the named-string key "a" and under an int key.  The two times the child *)
(* was ranged over its keys came in different orders: one copy holds nil   *)
(* under "a", the other the grandchild's dict.                             *)
C6_Witness ==
    /\ ret.op = "NormalizeDict"
    /\ heap0[1].mt = "dict"
    /\ heap0[1].ent = (SKey("a") :> MapV(2)) @@ (SKey("b") :> MapV(2))
    /\ heap0[2].mt = "iface"
    /\ heap0[2].ent = (SKey("a") :> Nil) @@ (Key("MyStr", "a") :> MapV(3))
                         @@ (Key("int", "1") :> MapV(3))
    /\ heap0[3].ent = EmptyEnt
    /\ DOMAIN heap[heap[ret.out].ent[SKey("a")].a].ent = {SKey("a")}
    /\ heap[heap[ret.out].ent[SKey("a")].a].ent[SKey("a")] = Nil
    /\ heap[heap[ret.out].ent[SKey("b")].a].ent[SKey("a")].t = "map"
    /\ heap[heap[heap[ret.out].ent[SKey("b")].a].ent[SKey("a")].a].ent = EmptyEnt

----------------------------------------------------------------------------
(* Lookups in a canonical root dict.                                       *)

MaxPath == 3                                \* segments in a path
Segments == {"a", "b"}
Paths == UNION {[1..n -> Segments] : n \in 0..MaxPath}

(* The order oracles of a call DictChild(dict, key) on store h: those of   *)
(* its NormalizeDict call when it makes one (dict.go:50-55), and the       *)
(* oracle without orders when it makes none.                               *)
ChildOrders(h, dict, key) ==
    IF Has(h, dict, key) /\ Get(h, dict, key).t = "map"
          /\ MapType(h, Get(h, dict, key).a) # "canon"
    THEN Orders(h, Get(h, dict, key))
    ELSE {OracleOf(h, <<>>)}

(* The order oracles of a call DictValue(dict, path) on store h, from loop *)
(* index i on.  What NormalizeDict returns is canonical at every level, so *)
(* the call ranges over maps in at most one DictChild call: the first that *)
(* meets a map that is not canonical.                                      *)
RECURSIVE PathOrders(_, _, _, _)
PathOrders(h, dict, path, i) ==
    IF i >= Len(path) - 1 THEN {OracleOf(h, <<>>)}
    ELSE LET c == DictChild(h, dict, path[i + 1], NoOrder)
         IN IF c.h # h THEN ChildOrders(h, dict, path[i + 1])
            ELSE IF c.r = Null THEN {OracleOf(h, <<>>)}
            ELSE PathOrders(h, c.r, path, i + 1)

InitPath ==
    /\ heap \in Heaps({"canon"}, {"canon"})
    /\ heap0 = heap
    /\ root = MapV(1)
    /\ ret = NoCall
    /\ rd = <<>>

(* The canonical dicts of the store, and the nil dict.                     *)
Dicts(h) == {a \in 1..Len(h) : h[a].mt = "canon"} \cup {Null}

(* Each call draws the key orders of its map reads.  A behaviour makes one *)
(* call.                                                                   *)
CallDictChild(dict, key) ==
    /\ ret.op = "none"
    /\ dict \in Dicts(heap)
    /\ \E ord \in ChildOrders(heap, dict, key) :
          LET c == DictChild(heap, dict, key, ord)
          IN /\ heap' = c.h
             /\ ret' = [op |-> "DictChild", dict |-> dict, key |-> key, ord |-> ord,
                        pre |-> heap, out |-> c.r]
    /\ UNCHANGED <<heap0, root, rd>>

CallDictValue(path) ==
    /\ ret.op = "none"
    /\ \E ord \in PathOrders(heap, root.a, path, 0) :
          LET r == DictValue(heap, root.a, path, ord)
          IN /\ heap' = r.h
             /\ ret' = [op |-> "DictValue", dict |-> root.a, path |-> path, ord |-> ord,
                        pre |-> heap, v |-> r.v, err |-> r.err]
    /\ UNCHANGED <<heap0, root, rd>>

CallDictFlag(path) ==
    /\ ret.op = "none"
    /\ \E ord \in PathOrders(heap, root.a, path, 0) :
          LET r == DictFlag(heap, root.a, path, ord)
          IN /\ heap' = r.h
             /\ ret' = [op |-> "DictFlag", dict |-> root.a, path |-> path, ord |-> ord,
                        pre |-> heap, b |-> r.b, err |-> r.err]
    /\ UNCHANGED <<heap0, root, rd>>

NextPath ==
    \/ \E dict \in 0..Len(heap), key \in Segments : CallDictChild(dict, key)
    \/ \E path \in Paths : CallDictValue(path)
    \/ \E path \in Paths : CallDictFlag(path)

SpecPath == InitPath /\ [][NextPath]_vars

(* What dict a of store h holds under the string key s.                    *)
At(h, a, s) == IF Has(h, a, s) THEN Get(h, a, s) ELSE [t |-> "absent"]

(* The dict DictValue holds after resolving the first n segments of path   *)
(* by DictChild, one after the other (Null once a segment fails).          *)
RECURSIVE Cursor(_, _, _, _, _)
Cursor(h, dict, path, n, ord) ==
    IF n = 0 THEN [h |-> h, r |-> dict]
    ELSE LET c == Cursor(h, dict, path, n - 1, ord)
         IN DictChild(c.h, c.r, path[n], ord)

(* The intermediate segments (1-based) at which resolution gives null.     *)
FailAt(h, dict, path, ord) ==
    {n \in 1..(Len(path) - 1) : Cursor(h, dict, path, n, ord).r = Null}

Least(S) == CHOOSE n \in S : \A m \in S : n <= m

(* The segments written with dots between them, built from the right.      *)
RECURSIVE Dotted(_)
Dotted(p) ==
    IF Len(p) = 1 THEN p[1]
    ELSE Dotted(SubSeq(p, 1, Len(p) - 1)) \o "." \o p[Len(p)]

(* C2: when Lookup fails at intermediate segment i, the error names        *)
(* path[0..i] joined by '.', the segments up to and including the failed   *)
(* one and no later one; when every intermediate segment resolves and the  *)
(* final key is absent, the error names the full path.                     *)
C2_ErrorNamesPrefix ==
    (ret.op = "DictValue" /\ Len(ret.path) >= 1) =>
        LET f == FailAt(ret.pre, ret.dict, ret.path, ret.ord)
            last == Cursor(ret.pre, ret.dict, ret.path, Len(ret.path) - 1, ret.ord)
        IN /\ f # {} =>
                ret.err = "cannot find: " \o Dotted(SubSeq(ret.path, 1, Least(f)))
           /\ (f = {} /\ ~Has(last.h, last.r, ret.path[Len(ret.path)])) =>
                ret.err = "cannot find: " \o Dotted(ret.path)

(* A three-segment lookup whose first segment resolved through a           *)
(* non-canonical child and whose second segment failed.                    *)
C2_Witness ==
    /\ ret.op = "DictValue"
    /\ ret.path = <<"a", "b", "a">>
    /\ ret.err = "cannot find: a.b"
    /\ At(ret.pre, 1, "a") = MapV(2)
    /\ ret.pre[2].mt = "iface"

(* C3: for a non-empty path Lookup succeeds exactly when every segment but *)
(* the last resolves through Child to a non-null mapping and the last      *)
(* segment is a key of that mapping; it then returns the stored value as   *)
(* it is.  A final key holding nil is a success returning nil; nil at an   *)
(* intermediate segment is a failure.                                      *)
C3_LookupSucceeds ==
    (ret.op = "DictValue" /\ Len(ret.path) >= 1) =>
        LET f == FailAt(ret.pre, ret.dict, ret.path, ret.ord)
            last == Cursor(ret.pre, ret.dict, ret.path, Len(ret.path) - 1, ret.ord)
            fin == ret.path[Len(ret.path)]
        IN /\ ret.err = NoError <=> (f = {} /\ Has(last.h, last.r, fin))
           /\ ret.err = NoError =>
                Tree(heap, ret.v) = Tree(last.h, Get(last.h, last.r, fin))
           /\ \A n \in 1..(Len(ret.path) - 1) :
                LET c == Cursor(ret.pre, ret.dict, ret.path, n - 1, ret.ord)
                IN (Has(c.h, c.r, ret.path[n]) /\ Get(c.h, c.r, ret.path[n]) = Nil)
                      => ret.err # NoError

(* A final key that holds nil was looked up below a resolved child.        *)
C3_Witness ==
    /\ ret.op = "DictValue"
    /\ ret.path = <<"a", "b">>
    /\ At(ret.pre, 1, "a") = MapV(2)
    /\ At(ret.pre, 2, "b") = Nil
    /\ ret.err = NoError
    /\ ret.v = Nil

(* C7, as stated: Child returns null exactly when the key is absent, its   *)
(* value is nil or its value is not map-shaped.  A canonical Dict value is *)
(* returned as the very object, with nothing allocated; a map of another   *)
(* type gives a freshly allocated normalized Dict, and the value stored    *)
(* under the key stays the original map.  It fails for a key that holds a  *)
(* nil map of the canonical type: the value is not the nil interface and   *)
(* is map-shaped, and Child returns it, which is null.  (Read with "nil"   *)
(* covering nil maps, it fails for a nil map of another type, for which    *)
(* Child returns an empty Dict.)                                           *)
C7_NullExactlyWhen ==
    ret.op = "DictChild" =>
        LET has == Has(ret.pre, ret.dict, ret.key)
            val == Get(ret.pre, ret.dict, ret.key)
        IN /\ ret.out = Null <=> (~has \/ val.t = "nil" \/ val.t # "map")
           /\ SubSeq(heap, 1, Len(ret.pre)) = ret.pre
           /\ (has /\ val.t = "map" /\ MapType(ret.pre, val.a) = "canon") =>
                 ret.out = val.a /\ heap = ret.pre
           /\ (has /\ val.t = "map" /\ MapType(ret.pre, val.a) # "canon") =>
                 /\ NormalFormOf(heap, val, ret.out)
                 /\ Reach(heap, MapV(ret.out)) \subseteq (Len(ret.pre) + 1)..Len(heap)

(* C7, amended: Child returns null exactly when the key is absent, its     *)
(* value is the nil interface value, its value is not map-shaped, or its   *)
(* value is a nil map of the canonical type.  A canonical Dict value is    *)
(* returned as the very object, with nothing allocated; a map of another   *)
(* type, a nil one too, gives a freshly allocated normalized Dict (an      *)
(* empty one for a nil map), and the value stored under the key stays the  *)
(* original map.                                                           *)
C7_ChildResult ==
    ret.op = "DictChild" =>
        LET has == Has(ret.pre, ret.dict, ret.key)
            val == Get(ret.pre, ret.dict, ret.key)
        IN /\ ret.out = Null <=>
                 (~has \/ val.t = "nil" \/ val.t # "map" \/ val = MapV(Null))
           /\ SubSeq(heap, 1, Len(ret.pre)) = ret.pre
           /\ (has /\ val.t = "map" /\ MapType(ret.pre, val.a) = "canon") =>
                 ret.out = val.a /\ heap = ret.pre
           /\ (has /\ val.t = "map" /\ MapType(ret.pre, val.a) # "canon") =>
                 /\ ret.out = Len(ret.pre) + 1
                 /\ NormalFormOf(heap, val, ret.out)
                 /\ Reach(heap, MapV(ret.out)) \subseteq (Len(ret.pre) + 1)..Len(heap)
                 /\ (IsNilMap(val.a) => heap[ret.out].ent = EmptyEnt)

(* Child was asked for a key that holds a nil interface-keyed map, beside  *)
(* a key that holds an interface-keyed map: it returned a new empty dict.  *)
C7_Witness ==
    /\ ret.op = "DictChild"
    /\ ret.dict = 1
    /\ ret.key = "a"
    /\ At(ret.pre, 1, "a") = MapV(NilOf("iface"))
    /\ At(ret.pre, 1, "b") = MapV(2)
    /\ ret.pre[2].mt = "iface"
    /\ ret.out = Len(ret.pre) + 1
    /\ heap[ret.out] = NewMap
    /\ heap[1] = ret.pre[1]

(* C8: BoolAt returns the boolean at the leaf when Lookup succeeds with a  *)
(* boolean; when Lookup fails it returns false with the error Lookup       *)
(* produced; when Lookup succeeds with a non-boolean (a string, a present  *)
(* nil) it returns false with a wrong-type error naming the full path.     *)
C8_BoolAt ==
    (ret.op = "DictFlag" /\ Len(ret.path) >= 1) =>
        LET r == DictValue(ret.pre, ret.dict, ret.path, ret.ord)
        IN /\ heap = r.h
           /\ IF r.err # NoError THEN ret.b = FALSE /\ ret.err = r.err
              ELSE IF r.v.t = "bool" THEN ret.b = r.v.v /\ ret.err = NoError
              ELSE /\ ret.b = FALSE
                   /\ ret.err = Dotted(ret.path) \o " is not a boolean type"

(* The leaf of a three-segment path held the string "yes".                 *)
C8_Witness ==
    /\ ret.op = "DictFlag"
    /\ ret.path = <<"a", "a", "a">>
    /\ At(ret.pre, 1, "a") = MapV(2)
    /\ At(ret.pre, 2, "a") = MapV(3)
    /\ ret.pre[3].ent = (SKey("a") :> StrV("yes"))
    /\ ret.err = "a.a.a is not a boolean type"
    /\ ret.b = FALSE

----------------------------------------------------------------------------
(* Concurrent readers of one shared dict (per-session feature lookups).    *)
(* A reader runs one read function.  DictValue and DictFlag take one step  *)
(* per DictChild call and one for the leaf; the other reads are one map    *)
(* read, a single step.  Steps of different readers interleave freely.     *)
(* What a reader allocates lands in the shared store at a fresh address.   *)

Readers == {"r1", "r2"}
ReaderPaths == {<<"a">>, <<"b">>, <<"a", "a">>, <<"a", "b">>, <<"a", "a", "a">>}
Idle == [pc |-> "idle", op |-> "none", path |-> <<>>, i |-> 0, dict |-> Null,
         v |-> Nil, err |-> NoError]

InitReaders ==
    /\ \E o2 \in ObjectsAt(2, {"canon", "mystr", "iface"}),
          o3 \in ObjectsAt(3, {"dict"}) :
          /\ o3.ent # EmptyEnt
          /\ heap = <<[mt |-> "canon", ent |-> (SKey("a") :> MapV(2)) @@ (SKey("b") :> BoolV(TRUE))]
                      , o2, o3>>
    /\ heap0 = heap
    /\ root = MapV(1)
    /\ ret = NoCall
    /\ rd = [r \in Readers |-> Idle]

(* The call DictValue(root, path) or DictFlag(root, path) begins.          *)
Start(r, op, path) ==
    /\ rd[r].pc = "idle"
    /\ rd' = [rd EXCEPT ![r] = [Idle EXCEPT !.pc = "walk", !.op = op, !.path = path,
                                             !.dict = root.a]]
    /\ UNCHANGED <<heap, heap0, root, ret>>

(* One iteration of the loop of DictValue, dict.go:73-79.                  *)
Step(r) ==
    LET me == rd[r]
    IN /\ me.pc = "walk"
       /\ me.i < Len(me.path) - 1
       /\ \E ord \in ChildOrders(heap, me.dict, me.path[me.i + 1]) :
             LET c == DictChild(heap, me.dict, me.path[me.i + 1], ord)
             IN /\ heap' = c.h
                /\ rd' = [rd EXCEPT ![r] =
                      IF c.r = Null
                      THEN [me EXCEPT !.pc = "done", !.dict = Null,
                              !.err = "cannot find: "
                                        \o Join(SubSeq(me.path, 1, me.i + 1), ".")]
                      ELSE [me EXCEPT !.i = me.i + 1, !.dict = c.r]]
       /\ UNCHANGED <<heap0, root, ret>>

(* The leaf fetch of DictValue, dict.go:80-84, and for DictFlag the type   *)
(* assertion on what it returned, dict.go:97-105.                          *)
Finish(r) ==
    LET me == rd[r]
        fin == DictValueFrom(heap, me.dict, me.path, me.i, NoOrder)
    IN /\ me.pc = "walk"
       /\ me.i = Len(me.path) - 1
       /\ rd' = [rd EXCEPT ![r] =
             IF me.op = "DictValue" \/ fin.err # NoError
             THEN [me EXCEPT !.pc = "done", !.v = fin.v, !.err = fin.err]
             ELSE IF fin.v.t # "bool"
                  THEN [me EXCEPT !.pc = "done",
                          !.err = Join(me.path, ".") \o " is not a boolean type"]
                  ELSE [me EXCEPT !.pc = "done", !.v = fin.v]]
       /\ UNCHANGED <<heap, heap0, root, ret>>

(* DictChild(root, name) called directly.                                  *)
ReadChild(r, name) ==
    /\ rd[r].pc = "idle"
    /\ \E ord \in ChildOrders(heap, root.a, name) :
          LET c == DictChild(heap, root.a, name, ord)
          IN /\ heap' = c.h
             /\ rd' = [rd EXCEPT ![r] = [Idle EXCEPT !.pc = "done", !.op = "DictChild",
                                                      !.path = <<name>>, !.v = MapV(c.r)]]
    /\ UNCHANGED <<heap0, root, ret>>

(* OptionString, OptionInt64 or OptionFlag of the shared dict.             *)
ReadOption(r, op, name) ==
    /\ rd[r].pc = "idle"
    /\ rd' = [rd EXCEPT ![r] = [Idle EXCEPT !.pc = "done", !.op = op, !.path = <<name>>,
          !.v = CASE op = "OptionString" -> StrV(OptionString(heap, root.a, name))
                  [] op = "OptionInt64" -> IntV("int64", OptionInt64(heap, root.a, name))
                  [] op = "OptionFlag" -> BoolV(OptionFlag(heap, root.a, name))]]
    /\ UNCHANGED <<heap, heap0, root, ret>>

NextReaders ==
    \E r \in Readers :
        \/ \E op \in {"DictValue", "DictFlag"}, path \in ReaderPaths : Start(r, op, path)
        \/ Step(r)
        \/ Finish(r)
        \/ \E name \in Segments : ReadChild(r, name)
        \/ \E op \in {"OptionString", "OptionInt64", "OptionFlag"}, name \in Segments :
              ReadOption(r, op, name)

SpecReaders == InitReaders /\ [][NextReaders]_vars

(* What the read of a reader returns when it runs alone on the dict as it  *)
(* was published and its map reads draw the key orders ord: the value      *)
(* (maps by their contents) and the error.                                 *)
Alone(me, ord) ==
    CASE me.op = "DictValue" ->
            LET x == DictValue(heap0, root.a, me.path, ord)
            IN [v |-> Tree(x.h, x.v), err |-> x.err]
      [] me.op = "DictFlag" ->
            LET x == DictFlag(heap0, root.a, me.path, ord)
            IN [v |-> IF x.err = NoError THEN BoolV(x.b) ELSE Nil, err |-> x.err]
      [] me.op = "DictChild" ->
            LET x == DictChild(heap0, root.a, me.path[1], ord)
            IN [v |-> Tree(x.h, MapV(x.r)), err |-> NoError]
      [] me.op = "OptionString" ->
            [v |-> StrV(OptionString(heap0, root.a, me.path[1])), err |-> NoError]
      [] me.op = "OptionInt64" ->
            [v |-> IntV("int64", OptionInt64(heap0, root.a, me.path[1])), err |-> NoError]
      [] me.op = "OptionFlag" ->
            [v |-> BoolV(OptionFlag(heap0, root.a, me.path[1])), err |-> NoError]

(* The order oracles of the read of a reader when it runs alone.           *)
AloneOrders(me) ==
    IF me.op = "DictChild" THEN ChildOrders(heap0, root.a, me.path[1])
    ELSE IF me.op \in {"DictValue", "DictFlag"} THEN PathOrders(heap0, root.a, me.path, 0)
    ELSE {OracleOf(heap0, <<>>)}

(* C10: every read operation leaves the Dict it is given, and every        *)
(* mapping nested in it, unchanged, also when Child falls back to          *)
(* normalizing a non-canonical child; so under any interleaving of         *)
(* concurrent readers of one shared Dict each reader returns the result it *)
(* returns when run alone (a result it can return alone: where a child has *)
(* two keys of the same text, alone too the result depends on the order in *)
(* which the child's keys are ranged over).                                *)
C10_ReadersIndependent ==
    /\ SubSeq(heap, 1, Len(heap0)) = heap0
    /\ \A r \in Readers :
          rd[r].pc = "done" =>
             \E ord \in AloneOrders(rd[r]) :
                /\ Tree(heap, rd[r].v) = Alone(rd[r], ord).v
                /\ rd[r].err = Alone(rd[r], ord).err

(* Reader r2 ran a whole lookup through a non-canonical child, and got a   *)
(* freshly normalized dict, while reader r1 was between the first and the  *)
(* second step of its own lookup through the same child.                   *)
C10_Witness ==
    /\ heap0[2].mt = "iface"
    /\ heap0[3].mt = "dict"
    /\ rd["r1"].pc = "walk" /\ rd["r1"].op = "DictFlag"
    /\ rd["r1"].path = <<"a", "a", "a">> /\ rd["r1"].i = 1
    /\ rd["r1"].dict = Len(heap0) + 1
    /\ rd["r2"].pc = "done" /\ rd["r2"].op = "DictValue"
    /\ rd["r2"].path = <<"a", "a">> /\ rd["r2"].err = NoError
    /\ rd["r2"].v.t = "map"
    /\ rd["r2"].v.a > rd["r1"].dict

====
